---- MODULE Spec2Model ----
(***************************************************************************)
(* Model of the Grid layout engine of rusty-panther (src/src/structure.rs). *)
(*                                                                         *)
(* A Grid is two vectors of cells (columns, rows), each cell a             *)
(* (share: u8, pinned: bool) pair, the stored axis lengths width_ and      *)
(* height_ (u8) and the terminal size in characters (u16).                 *)
(*                                                                         *)
(* Rust vectors are 0-based, TLA+ sequences 1-based: the cell the code     *)
(* reads as v[i] is At(v, i) == v[i + 1] here.                             *)
(*                                                                         *)
(* Arithmetic on u8 either panics or wraps modulo 256 on overflow,         *)
(* depending on whether the crate is built with overflow checks (debug     *)
(* profile) or without (release profile); the variable overflow_checks     *)
(* is fixed by Init and stands for that build choice.  A panic stops the   *)
(* program: pc becomes "panicked" and the grid keeps the value it had at   *)
(* the panicking statement.                                                *)
(*                                                                         *)
(* The queries take &self and change nothing.  The outcome of a call is    *)
(* recorded in last; a query that returns ends the run (pc = "queried"),   *)
(* since any later call would start from the very grid the query saw.      *)
(***************************************************************************)
EXTENDS Integers, Sequences, FiniteSets, TLC

VARIABLES columns, rows, width_, height_, width_chars, height_chars,
          overflow_checks, pc, calls, last,
          children, screen_width, screen_height

vars == <<columns, rows, width_, height_, width_chars, height_chars,
          overflow_checks, pc, calls, last,
          children, screen_width, screen_height>>

\* the fields of a Window next to its grid; a Grid used on its own has none
win == <<children, screen_width, screen_height>>

grid == <<columns, rows, width_, height_, width_chars, height_chars>>

(***************************************************************************)
(* Bounds of the model.                                                    *)
(***************************************************************************)
\* largest axis length handed to width()/height()
MaxLen == 2
\* largest 0-based index handed to a configure call or a *_chars query
MaxIndex == 2
\* largest coordinate handed to a placement query
MaxCoord == 3
\* terminal sizes 0..MaxChars are tried on the character conversions
MaxChars == 60
\* number of configure calls made on a built grid
MaxCalls == 2
\* number of configure calls made on a built grid before it is queried
MaxQueryCalls == 1

\* 2^8: u8 arithmetic is modulo U8 when it wraps
U8 == 256
\* u16::MAX: a float to u16 cast saturates here
U16Max == 65535

\* percentages handed to column_configure / row_configure
Percents == {30, 80, 250}
\* terminal sizes in characters (size(), set_width_chars, set_height_chars)
CharSizes == {36, 150}
\* terminal sizes tried on the character conversions alone
ConvSizes == (0..MaxChars) \cup {150, U16Max}
\* percentages handed directly to percent_to_char_width / _height
QueryPercents == {0, 1, 25, 50, 100}

(***************************************************************************)
(* Cells: GridColumn(u8, bool) and GridRow(u8, bool).                      *)
(***************************************************************************)
Cell(share, pinned) == [share |-> share, pinned |-> pinned]

At(cells, i) == cells[i + 1]

\* Vec bounds check of cells[i]
InRange(cells, i) == i < Len(cells)

\* vec of n copies of Cell(percent, false): the push loops of width()/height()
Fill(n, percent) == [i \in 1..n |-> Cell(percent, FALSE)]

Outcome(op, a, b, err, x, y) ==
    [op |-> op, a |-> a, b |-> b, err |-> err, x |-> x, y |-> y]

(***************************************************************************)
(* recalculate()                                                           *)
(***************************************************************************)
\* first loop of each half: subtract the pinned cells' shares from the u8
\* accumulator p (starting at 100) and count the non-pinned cells in n
RECURSIVE Reserve(_, _, _, _, _)
Reserve(cells, i, p, n, checks) ==
    IF i > Len(cells) THEN [p |-> p, n |-> n, err |-> "none"]
    ELSE IF cells[i].pinned
         THEN IF cells[i].share > p /\ checks
              THEN [p |-> p, n |-> n, err |-> "Overflow"]
              ELSE Reserve(cells, i + 1, (p + U8 - cells[i].share) % U8, n - 1, checks)
         ELSE Reserve(cells, i + 1, p, n, checks)

\* second loop of each half: every non-pinned cell is replaced
DistributeAll(cells, share) ==
    [i \in DOMAIN cells |-> Cell(share, FALSE)]

Distribute(cells, share) ==
    [i \in DOMAIN cells |->
        IF ~cells[i].pinned THEN Cell(share, FALSE) ELSE cells[i]]

\* one half of recalculate() on one axis
RecalculateAxisPinning(cells, checks) ==
    LET r == Reserve(cells, 1, 100, Len(cells), checks)
    IN  IF r.err # "none" THEN [cells |-> cells, err |-> r.err]
        ELSE IF r.n % U8 = 0 THEN [cells |-> cells, err |-> "DivideByZero"]
        ELSE [cells |-> [i \in DOMAIN cells |->
                            Cell(Distribute(cells, r.p \div (r.n % U8))[i].share, TRUE)],
              err |-> "none"]

RecalculateAxis(cells, checks) ==
    LET r == Reserve(cells, 1, 100, Len(cells), checks)
    IN  IF r.err # "none" THEN [cells |-> cells, err |-> r.err]
        ELSE IF r.n % U8 = 0 THEN [cells |-> cells, err |-> "DivideByZero"]
        ELSE [cells |-> Distribute(cells, r.p \div (r.n % U8)), err |-> "none"]

\* rows first, then columns; a panic in the rows half leaves columns as is
RecalculateBothFromColumns(rs, cs, checks) ==
    LET r == RecalculateAxis(rs, checks)
    IN  IF r.err # "none" THEN [rows |-> rs, columns |-> cs, err |-> r.err]
        ELSE LET c == RecalculateAxis(cs, checks)
             IN  [rows |-> c.cells, columns |-> c.cells, err |-> c.err]

\* rows first, then columns; a panic in the rows half leaves columns as is
Recalculate(rs, cs, checks) ==
    LET r == RecalculateAxis(rs, checks)
    IN  IF r.err # "none" THEN [rows |-> rs, columns |-> cs, err |-> r.err]
        ELSE LET c == RecalculateAxis(cs, checks)
             IN  [rows |-> r.cells, columns |-> c.cells, err |-> c.err]

(***************************************************************************)
(* Construction.                                                           *)
(***************************************************************************)
InitFourColumns ==
    /\ columns = Fill(4, 25)
    /\ rows = Fill(5, 20)
    /\ width_ = 5
    /\ height_ = 5
    /\ width_chars \in CharSizes
    /\ height_chars \in CharSizes
    /\ overflow_checks \in BOOLEAN
    /\ pc = "builder"
    /\ calls = 0
    /\ last = Outcome("builder", 0, 0, "none", 0, 0)
    /\ children = <<>>
    /\ screen_width = 0
    /\ screen_height = 0

Init ==
    /\ columns = Fill(5, 20)
    /\ rows = Fill(5, 20)
    /\ width_ = 5
    /\ height_ = 5
    /\ width_chars \in CharSizes
    /\ height_chars \in CharSizes
    /\ overflow_checks \in BOOLEAN
    /\ pc = "builder"
    /\ calls = 0
    /\ last = Outcome("builder", 0, 0, "none", 0, 0)
    /\ children = <<>>
    /\ screen_width = 0
    /\ screen_height = 0

width(n) ==
    /\ pc = "builder"
    /\ width_' = n
    /\ IF n = 0
       THEN /\ pc' = "panicked"
            /\ last' = Outcome("width", n, 0, "DivideByZero", 0, 0)
            /\ UNCHANGED columns
       ELSE /\ columns' = Fill(n, 100 \div n)
            /\ last' = Outcome("width", n, 0, "none", 0, 0)
            /\ UNCHANGED pc
    /\ UNCHANGED <<rows, height_, width_chars, height_chars, overflow_checks, win, calls>>

height(n) ==
    /\ pc = "builder"
    /\ height_' = n
    /\ IF n = 0
       THEN /\ pc' = "panicked"
            /\ last' = Outcome("height", n, 0, "DivideByZero", 0, 0)
            /\ UNCHANGED rows
       ELSE /\ rows' = Fill(n, 100 \div n)
            /\ last' = Outcome("height", n, 0, "none", 0, 0)
            /\ UNCHANGED pc
    /\ UNCHANGED <<columns, width_, width_chars, height_chars, overflow_checks, win, calls>>

build ==
    /\ pc = "builder"
    /\ pc' = "built"
    /\ last' = Outcome("build", 0, 0, "none", 0, 0)
    /\ UNCHANGED <<grid, overflow_checks, win, calls>>

(***************************************************************************)
(* column_configure / row_configure                                        *)
(***************************************************************************)
\* cells[index] = Cell(percent, true): the indexed store panics past the end
PinGrow(cells, index, percent) ==
    IF InRange(cells, index)
    THEN [cells |-> [cells EXCEPT ![index + 1] = Cell(percent, TRUE)], err |-> "none"]
    ELSE [cells |-> Append(cells, Cell(percent, TRUE)), err |-> "none"]

Pin(cells, index, percent) ==
    IF InRange(cells, index)
    THEN [cells |-> [cells EXCEPT ![index + 1] = Cell(percent, TRUE)], err |-> "none"]
    ELSE [cells |-> cells, err |-> "IndexOutOfRange"]

column_configure(col, percent) ==
    /\ pc = "built"
    /\ calls < MaxCalls
    /\ calls' = calls + 1
    /\ LET s == Pin(columns, col, percent)
       IN  IF s.err # "none"
           THEN /\ pc' = "panicked"
                /\ last' = Outcome("column_configure", col, percent, s.err, 0, 0)
                /\ UNCHANGED <<columns, rows>>
           ELSE LET r == Recalculate(rows, s.cells, overflow_checks)
                IN  /\ columns' = r.columns
                    /\ rows' = r.rows
                    /\ pc' = IF r.err = "none" THEN "built" ELSE "panicked"
                    /\ last' = Outcome("column_configure", col, percent, r.err, 0, 0)
    /\ UNCHANGED <<width_, height_, width_chars, height_chars, overflow_checks, win>>

row_configure(row, percent) ==
    /\ pc = "built"
    /\ calls < MaxCalls
    /\ calls' = calls + 1
    /\ LET s == Pin(rows, row, percent)
       IN  IF s.err # "none"
           THEN /\ pc' = "panicked"
                /\ last' = Outcome("row_configure", row, percent, s.err, 0, 0)
                /\ UNCHANGED <<columns, rows>>
           ELSE LET r == Recalculate(s.cells, columns, overflow_checks)
                IN  /\ columns' = r.columns
                    /\ rows' = r.rows
                    /\ pc' = IF r.err = "none" THEN "built" ELSE "panicked"
                    /\ last' = Outcome("row_configure", row, percent, r.err, 0, 0)
    /\ UNCHANGED <<width_, height_, width_chars, height_chars, overflow_checks, win>>

(***************************************************************************)
(* recalculate() called directly (it is a public method).                  *)
(***************************************************************************)
recalculate ==
    /\ pc = "built"
    /\ LET r == Recalculate(rows, columns, overflow_checks)
       IN  /\ columns' = r.columns
           /\ rows' = r.rows
           /\ pc' = IF r.err = "none" THEN "built" ELSE "panicked"
           /\ last' = Outcome("recalculate", 0, 0, r.err, 0, 0)
    /\ UNCHANGED <<width_, height_, width_chars, height_chars, overflow_checks, win, calls>>

(***************************************************************************)
(* set_width_chars / set_height_chars                                      *)
(***************************************************************************)
set_height_chars(size) ==
    /\ pc = "built"
    /\ height_chars' = size
    /\ last' = Outcome("set_height_chars", size, 0, "none", 0, 0)
    /\ UNCHANGED <<columns, rows, width_, height_, width_chars, overflow_checks, win, pc, calls>>

set_width_chars_both(size) ==
    /\ pc = "built"
    /\ width_chars' = size
    /\ height_chars' = size
    /\ last' = Outcome("set_width_chars", size, 0, "none", 0, 0)
    /\ UNCHANGED <<columns, rows, width_, height_, overflow_checks, win, pc, calls>>

set_width_chars(size) ==
    /\ pc = "built"
    /\ width_chars' = size
    /\ last' = Outcome("set_width_chars", size, 0, "none", 0, 0)
    /\ UNCHANGED <<columns, rows, width_, height_, height_chars, overflow_checks, win, pc, calls>>

(***************************************************************************)
(* percent_to_char_width / percent_to_char_height:                         *)
(*     ((chars as f32 / 100f32) * percent as f32) as u16, then 0 -> 1.     *)
(* An f32 is a 24-bit significand m and a binary exponent: the value       *)
(* m / 2^k is kept as [m, k].  Division and multiplication round to        *)
(* nearest, ties to even (IEEE 754 binary32); the cast to u16 truncates    *)
(* and saturates.  chars (u16) and percent (u8) convert to f32 exactly.    *)
(***************************************************************************)
\* q + 1 or q, for the quotient q and remainder r of a division by d
RoundHalfEven(q, r, d) ==
    q + (IF 2 * r > d \/ (2 * r = d /\ q % 2 = 1) THEN 1 ELSE 0)

\* the least k with n * 2^k >= 100 * 2^23: then (n * 2^k) / 100 has 24 bits
RECURSIVE NormShift(_, _)
NormShift(n, k) ==
    IF n * 2^k >= 100 * 2^23 THEN k ELSE NormShift(n, k + 1)

\* chars as f32 / 100f32
F32Div100(chars) ==
    IF chars = 0 THEN [m |-> 0, k |-> 0]
    ELSE LET k == NormShift(chars, 0)
             n == chars * 2^k
         IN  [m |-> RoundHalfEven(n \div 100, n % 100, 100), k |-> k]

\* the least s with hi < 2^(16 + s)
RECURSIVE Excess(_, _)
Excess(hi, s) == IF hi < 2^(16 + s) THEN s ELSE Excess(hi, s + 1)

\* f * percent as f32: the exact product f.m * percent is kept as
\* hi * 2^8 + lo so that no intermediate value needs more than 31 bits,
\* and is then rounded to 24 bits
F32Mul(f, percent) ==
    LET a == f.m \div 256
        b == f.m % 256
        hi == a * percent + (b * percent) \div 256
        lo == (b * percent) % 256
        s == Excess(hi, 0)
    IN  IF s = 0 THEN [m |-> hi * 256 + lo, k |-> f.k]
        ELSE [m |-> RoundHalfEven(hi * 2^(8 - s) + lo \div 2^s, lo % 2^s, 2^s),
              k |-> f.k - s]

\* f as u16
F32ToU16(f) ==
    LET i == f.m \div 2^(f.k)
    IN  IF i > U16Max THEN U16Max ELSE i

PercentToChar(chars, percent) ==
    LET i == F32ToU16(F32Mul(F32Div100(chars), percent))
    IN  IF i = 0 THEN 1 ELSE i

percent_to_char_height(percent) ==
    /\ pc = "built"
    /\ last' = Outcome("percent_to_char_height", percent, 0, "none",
                       PercentToChar(height_chars, percent), 0)
    /\ pc' = "queried"
    /\ UNCHANGED <<grid, overflow_checks, win, calls>>

percent_to_char_width(percent) ==
    /\ pc = "built"
    /\ last' = Outcome("percent_to_char_width", percent, 0, "none",
                       PercentToChar(width_chars, percent), 0)
    /\ pc' = "queried"
    /\ UNCHANGED <<grid, overflow_checks, win, calls>>

(***************************************************************************)
(* get_placement_percent / get_placement_chars                             *)
(***************************************************************************)
\* for c in c..=upto { if c > 1 { acc += cells[c].0 } }   (acc: u8)
RECURSIVE Accumulate(_, _, _, _, _)
Accumulate(cells, c, upto, acc, checks) ==
    IF c > upto THEN [val |-> acc, err |-> "none"]
    ELSE IF c > 1
         THEN IF ~InRange(cells, c)
              THEN [val |-> acc, err |-> "IndexOutOfRange"]
              ELSE IF acc + At(cells, c).share >= U8 /\ checks
                   THEN [val |-> acc, err |-> "Overflow"]
                   ELSE Accumulate(cells, c + 1, upto,
                                   (acc + At(cells, c).share) % U8, checks)
         ELSE Accumulate(cells, c + 1, upto, acc, checks)

\* the columns loop runs first, then the rows loop
PlacementPercent(cs, rs, column, row, checks) ==
    LET px == Accumulate(cs, 1, column, 1, checks)
    IN  IF px.err # "none" THEN [x |-> 0, y |-> 0, err |-> px.err]
        ELSE LET py == Accumulate(rs, 1, row, 1, checks)
             IN  IF py.err # "none" THEN [x |-> 0, y |-> 0, err |-> py.err]
                 ELSE [x |-> px.val, y |-> py.val, err |-> "none"]

get_placement_percent(column, row) ==
    /\ pc = "built"
    /\ LET r == PlacementPercent(columns, rows, column, row, overflow_checks)
       IN  /\ last' = Outcome("get_placement_percent", column, row, r.err, r.x, r.y)
           /\ pc' = IF r.err = "none" THEN "queried" ELSE "panicked"
    /\ UNCHANGED <<grid, overflow_checks, win, calls>>

get_placement_chars_swapped(column, row) ==
    /\ pc = "built"
    /\ LET r == PlacementPercent(columns, rows, column, row, overflow_checks)
       IN  IF r.err # "none"
           THEN /\ last' = Outcome("get_placement_chars", column, row, r.err, 0, 0)
                /\ pc' = "panicked"
           ELSE /\ last' = Outcome("get_placement_chars", column, row, "none",
                                   PercentToChar(height_chars, r.x),
                                   PercentToChar(width_chars, r.y))
                /\ pc' = "queried"
    /\ UNCHANGED <<grid, overflow_checks, win, calls>>

get_placement_chars(column, row) ==
    /\ pc = "built"
    /\ LET r == PlacementPercent(columns, rows, column, row, overflow_checks)
       IN  IF r.err # "none"
           THEN /\ last' = Outcome("get_placement_chars", column, row, r.err, 0, 0)
                /\ pc' = "panicked"
           ELSE /\ last' = Outcome("get_placement_chars", column, row, "none",
                                   PercentToChar(width_chars, r.x),
                                   PercentToChar(height_chars, r.y))
                /\ pc' = "queried"
    /\ UNCHANGED <<grid, overflow_checks, win, calls>>

(***************************************************************************)
(* get_column_chars / get_row_chars                                        *)
(***************************************************************************)
get_column_chars(column) ==
    /\ pc = "built"
    /\ IF ~InRange(columns, column)
       THEN /\ last' = Outcome("get_column_chars", column, 0, "IndexOutOfRange", 0, 0)
            /\ pc' = "panicked"
       ELSE /\ last' = Outcome("get_column_chars", column, 0, "none",
                               PercentToChar(width_chars, At(columns, column).share), 0)
            /\ pc' = "queried"
    /\ UNCHANGED <<grid, overflow_checks, win, calls>>

get_row_chars(row) ==
    /\ pc = "built"
    /\ IF ~InRange(rows, row)
       THEN /\ last' = Outcome("get_row_chars", row, 0, "IndexOutOfRange", 0, 0)
            /\ pc' = "panicked"
       ELSE /\ last' = Outcome("get_row_chars", row, 0, "none",
                               PercentToChar(height_chars, At(rows, row).share), 0)
            /\ pc' = "queried"
    /\ UNCHANGED <<grid, overflow_checks, win, calls>>

(***************************************************************************)
(* Specifications.                                                         *)
(***************************************************************************)
\* the calls that build and change a grid
Next ==
    \/ \E n \in 0..MaxLen : width(n)
    \/ \E n \in 0..MaxLen : height(n)
    \/ build
    \/ \E i \in 0..MaxIndex, p \in Percents : column_configure(i, p)
    \/ \E i \in 0..MaxIndex, p \in Percents : row_configure(i, p)
    \/ recalculate
    \/ \E size \in CharSizes : set_width_chars(size)
    \/ \E size \in CharSizes : set_height_chars(size)

Spec == Init /\ [][Next]_vars

\* the same calls, at most MaxQueryCalls of them configure calls, and the
\* queries on the grids they reach
NextQuery ==
    \/ \E n \in 0..MaxLen : width(n)
    \/ \E n \in 0..MaxLen : height(n)
    \/ build
    \/ calls < MaxQueryCalls /\ \E i \in 0..MaxIndex, p \in Percents : column_configure(i, p)
    \/ calls < MaxQueryCalls /\ \E i \in 0..MaxIndex, p \in Percents : row_configure(i, p)
    \/ recalculate
    \/ \E size \in CharSizes : set_width_chars(size)
    \/ \E size \in CharSizes : set_height_chars(size)
    \/ \E c \in 0..MaxCoord, r \in 0..MaxCoord : get_placement_percent(c, r)
    \/ \E c \in 0..MaxCoord, r \in 0..MaxCoord : get_placement_chars(c, r)
    \/ \E c \in 0..MaxIndex : get_column_chars(c)
    \/ \E r \in 0..MaxIndex : get_row_chars(r)

SpecQuery == Init /\ [][NextQuery]_vars

\* the character conversions alone, on Grid::new() at any terminal size
InitConv ==
    /\ columns = Fill(5, 20)
    /\ rows = Fill(5, 20)
    /\ width_ = 5
    /\ height_ = 5
    /\ \/ width_chars \in ConvSizes /\ height_chars \in CharSizes
       \/ width_chars \in CharSizes /\ height_chars \in ConvSizes
    /\ overflow_checks \in BOOLEAN
    /\ pc = "built"
    /\ calls = 0
    /\ last = Outcome("build", 0, 0, "none", 0, 0)
    /\ children = <<>>
    /\ screen_width = 0
    /\ screen_height = 0

NextConv ==
    \/ \E size \in CharSizes : set_width_chars(size)
    \/ \E size \in CharSizes : set_height_chars(size)
    \/ \E p \in QueryPercents : percent_to_char_width(p)
    \/ \E p \in QueryPercents : percent_to_char_height(p)

SpecConv == InitConv /\ [][NextConv]_vars

(***************************************************************************)
(* Window: a list of child widgets laid out on a private Grid::new().      *)
(* A child is a Label: its grid cell x / y (1 / 1 from Label::builder),    *)
(* whether it has a border, the call that added it, and rect, the          *)
(* arguments <<x, y, width, height>> of the last draw() made on it.        *)
(***************************************************************************)
\* number of children handed to a window
MaxChildren == 2

\* character positions handed to add()
AddPlaces == {7}
\* rows and columns handed to grid(); the grid has cells 0..4
GridCells == {2, 5}

Child(x, y, border, via, rect) ==
    [x |-> x, y |-> y, border |-> border, via |-> via, rect |-> rect]

\* the u16 arithmetic of create_border_box / create_fill_box; the wrapped
\* values only reach the terminal output
draw(border, x, y, w, h, checks) ==
    IF ~checks THEN "none"
    ELSE IF border
         THEN IF \/ w + 1 > U16Max
                 \/ w + 1 < 2
                 \/ h < 2
                 \/ y + h > U16Max
              THEN "Overflow" ELSE "none"
         ELSE IF h > 0 /\ y + h - 1 > U16Max THEN "Overflow" ELSE "none"

\* the body of the loop of draw_children, on one child
DrawChild(child, w, h, checks) ==
    LET x == child.x % U8
        y == child.y % U8
        p == PlacementPercent(columns, rows, x, y, checks)
    IN  IF p.err # "none" THEN [child |-> child, err |-> p.err]
        ELSE IF ~InRange(columns, x) \/ ~InRange(rows, y)
             THEN [child |-> child, err |-> "IndexOutOfRange"]
             ELSE LET rect == << PercentToChar(w, p.x),
                                 PercentToChar(h, p.y),
                                 PercentToChar(w, At(columns, x).share),
                                 PercentToChar(h, At(rows, y).share) >>
                  IN  [child |-> [child EXCEPT !.rect = rect],
                       err |-> draw(child.border, rect[1], rect[2], rect[3], rect[4], checks)]

\* the loop of draw_children from child i on; a panic leaves the rest undrawn
RECURSIVE DrawFrom(_, _, _, _, _)
DrawFrom(kids, i, w, h, checks) ==
    IF i > Len(kids) THEN [children |-> kids, err |-> "none"]
    ELSE LET d == DrawChild(kids[i], w, h, checks)
         IN  IF d.err # "none"
             THEN [children |-> [kids EXCEPT ![i] = d.child], err |-> d.err]
             ELSE DrawFrom([kids EXCEPT ![i] = d.child], i + 1, w, h, checks)

\* size() gives (w, h), update_grid_size stores it, every child is drawn
draw_children(kids, w, h, op, a, b) ==
    /\ width_chars' = w
    /\ height_chars' = h
    /\ LET r == DrawFrom(kids, 1, w, h, overflow_checks)
       IN  /\ children' = r.children
           /\ pc' = IF r.err = "none" THEN pc ELSE "panicked"
           /\ last' = Outcome(op, a, b, r.err, 0, 0)

InitWindow ==
    /\ columns = Fill(5, 20)
    /\ rows = Fill(5, 20)
    /\ width_ = 5
    /\ height_ = 5
    /\ width_chars \in CharSizes
    /\ height_chars \in CharSizes
    /\ overflow_checks \in BOOLEAN
    /\ pc = "built"
    /\ calls = 0
    /\ last = Outcome("Window::new", 0, 0, "none", 0, 0)
    /\ children = <<>>
    /\ screen_width = width_chars
    /\ screen_height = height_chars

Window_add(x, y, border) ==
    /\ pc = "built"
    /\ Len(children) < MaxChildren
    /\ children' = Append(children, Child(1, 1, border, "add", <<x, y, 0, 0>>))
    /\ LET d == draw(border, x, y, 0, 0, overflow_checks)
       IN  /\ pc' = IF d = "none" THEN "built" ELSE "panicked"
           /\ last' = Outcome("Window::add", x, y, d, 0, 0)
    /\ UNCHANGED <<grid, overflow_checks, calls, screen_width, screen_height>>

Window_grid(row, col, border) ==
    /\ pc = "built"
    /\ Len(children) < MaxChildren
    /\ \E w \in CharSizes, h \in CharSizes :
          draw_children(Append(children, Child(col, row, border, "grid", <<>>)),
                        w, h, "Window::grid", row, col)
    /\ UNCHANGED <<columns, rows, width_, height_, overflow_checks, calls,
                   screen_width, screen_height>>

run ==
    /\ pc = "built"
    /\ pc' = "running"
    /\ last' = Outcome("run", 0, 0, "none", 0, 0)
    /\ UNCHANGED <<grid, overflow_checks, calls, win>>

Resize(w, h) ==
    /\ pc = "running"
    /\ screen_height' = h
    /\ screen_width' = w
    /\ draw_children(children, w, h, "Resize", w, h)
    /\ UNCHANGED <<columns, rows, width_, height_, overflow_checks, calls>>

quit ==
    /\ pc = "running"
    /\ pc' = "quit"
    /\ last' = Outcome("quit", 0, 0, "none", 0, 0)
    /\ UNCHANGED <<grid, overflow_checks, calls, win>>

NextWindow ==
    \/ \E x \in AddPlaces, y \in AddPlaces, border \in BOOLEAN : Window_add(x, y, border)
    \/ \E row \in GridCells, col \in GridCells, border \in BOOLEAN : Window_grid(row, col, border)
    \/ run
    \/ \E w \in CharSizes, h \in CharSizes : Resize(w, h)
    \/ quit

SpecWindow == InitWindow /\ [][NextWindow]_vars

(***************************************************************************)
(* Properties.                                                             *)
(***************************************************************************)
RECURSIVE SumFrom(_, _, _)
SumFrom(cells, lo, hi) ==
    IF lo > hi THEN 0 ELSE cells[lo].share + SumFrom(cells, lo + 1, hi)

SumShares(cells) == SumFrom(cells, 1, Len(cells))

PinnedSum(cells) == SumShares(SelectSeq(cells, LAMBDA c : c.pinned))

FlexCount(cells) == Len(SelectSeq(cells, LAMBDA c : ~c.pinned))

AllPinned(cells) == \A i \in DOMAIN cells : cells[i].pinned

Completed == pc # "panicked"

ConfigureOps == {"column_configure", "row_configure"}

PlacementOps == {"get_placement_percent", "get_placement_chars"}

FloorShares(cells) ==
    \A i \in DOMAIN cells :
        ~cells[i].pinned =>
            cells[i].share = (100 - PinnedSum(cells)) \div FlexCount(cells)

\* C1: in every state reached by width/height and configure calls that
\* complete, every non-pinned cell of an axis has share
\* floor((100 - sum of the axis's pinned shares) / number of non-pinned cells).
C1_FloorShare ==
    Completed => FloorShares(columns) /\ FloorShares(rows)

\* C2: a completed column_configure(i, p) / row_configure(i, p) leaves cell i
\* as (p, pinned), and no later call on a built grid other than a configure
\* of that same cell changes a pinned cell.
C2_PinnedKept ==
    [][ /\ (last'.op = "column_configure" /\ pc' = "built")
            => At(columns', last'.a) = Cell(last'.b, TRUE)
        /\ (last'.op = "row_configure" /\ pc' = "built")
            => At(rows', last'.a) = Cell(last'.b, TRUE)
        /\ \A i \in DOMAIN columns :
              (pc = "built" /\ columns[i].pinned
                 /\ ~(last'.op = "column_configure" /\ last'.a = i - 1))
              => (i \in DOMAIN columns' /\ columns'[i] = columns[i])
        /\ \A i \in DOMAIN rows :
              (pc = "built" /\ rows[i].pinned
                 /\ ~(last'.op = "row_configure" /\ last'.a = i - 1))
              => (i \in DOMAIN rows' /\ rows'[i] = rows[i])
      ]_vars

\* a cell pinned by the first configure call is still there after a second,
\* completed configure call on another index
C2_Witness ==
    /\ pc = "built"
    /\ calls = 2
    /\ last.op \in ConfigureOps
    /\ \/ \E i \in DOMAIN columns :
             columns[i].pinned /\ ~(last.op = "column_configure" /\ last.a = i - 1)
       \/ \E i \in DOMAIN rows :
             rows[i].pinned /\ ~(last.op = "row_configure" /\ last.a = i - 1)

\* C3: in every state reached by configure calls that complete, the shares
\* of the columns sum to at most 100 and so do the shares of the rows.
C3_SumAtMost100 ==
    Completed => SumShares(columns) <= 100 /\ SumShares(rows) <= 100

\* max(1, floor(chars * percent / 100)) in exact integer arithmetic
PercentToCharExact(chars, percent) ==
    LET i == (chars * percent) \div 100
    IN  IF i = 0 THEN 1 ELSE i

\* C4: percent_to_char_width(p) = max(1, floor(width_chars * p / 100)) and
\* percent_to_char_height(p) = max(1, floor(height_chars * p / 100)).
C4_FloorConversion ==
    /\ last.op = "percent_to_char_width"
          => last.x = PercentToCharExact(width_chars, last.a)
    /\ last.op = "percent_to_char_height"
          => last.x = PercentToCharExact(height_chars, last.a)

\* C5: for 1-based (column, row) inside the grid, a get_placement_percent
\* that returns gives (1 + sum of the shares of columns 2..column,
\* 1 + sum of the shares of rows 2..row), columns and rows counted 1-based.
C5_PlacementSum ==
    (/\ last.op = "get_placement_percent"
     /\ last.err = "none"
     /\ last.a \in 1..Len(columns)
     /\ last.b \in 1..Len(rows))
    => /\ last.x = 1 + SumFrom(columns, 2, last.a)
       /\ last.y = 1 + SumFrom(rows, 2, last.b)

\* C6: get_placement_percent(c, r) and get_placement_chars(c, r) do not fail
\* with an index error when 1 <= c <= N and 1 <= r <= M, and fail when
\* c > N or r > M.
C6_IndexRange ==
    last.op \in PlacementOps
    => /\ (last.a \in 1..Len(columns) /\ last.b \in 1..Len(rows))
              => last.err # "IndexOutOfRange"
       /\ (last.a > Len(columns) \/ last.b > Len(rows))
              => last.err # "none"

\* C7: a configure call that leaves every cell of its axis pinned, with the
\* pinned shares not summing to 100, completes.
C7_FullyPinnedAccepted ==
    /\ (last.op = "column_configure" /\ InRange(columns, last.a)
          /\ AllPinned(columns) /\ SumShares(columns) # 100)
       => last.err = "none"
    /\ (last.op = "row_configure" /\ InRange(rows, last.a)
          /\ AllPinned(rows) /\ SumShares(rows) # 100)
       => last.err = "none"

\* C8: a configure call that makes the pinned shares of its axis sum to more
\* than 100 completes and stores the cell as (percent, pinned).
C8_OverAllocationAccepted ==
    /\ (last.op = "column_configure" /\ InRange(columns, last.a)
          /\ PinnedSum(columns) > 100)
       => (last.err = "none" /\ At(columns, last.a) = Cell(last.b, TRUE))
    /\ (last.op = "row_configure" /\ InRange(rows, last.a)
          /\ PinnedSum(rows) > 100)
       => (last.err = "none" /\ At(rows, last.a) = Cell(last.b, TRUE))

\* C9: column_configure / row_configure with index >= the length of the
\* axis fails with an index-out-of-range error and changes no cell of
\* either axis, no stored length and no character dimension.
C9_RejectedIndex ==
    [][ /\ (last'.op = "column_configure" /\ ~InRange(columns, last'.a))
            => (last'.err = "IndexOutOfRange" /\ pc' = "panicked" /\ grid' = grid)
        /\ (last'.op = "row_configure" /\ ~InRange(rows, last'.a))
            => (last'.err = "IndexOutOfRange" /\ pc' = "panicked" /\ grid' = grid)
      ]_vars

\* a configure call was made with an index past the end of its axis, on a
\* grid that already has a pinned cell
C9_Witness ==
    /\ last.op \in ConfigureOps
    /\ calls = 2
    /\ (last.op = "column_configure" => last.a >= Len(columns))
    /\ (last.op = "row_configure" => last.a >= Len(rows))
    /\ \E i \in DOMAIN columns : columns[i].pinned

\* C10: width(0) / height(0) fails, and fails before the stored length or
\* the cell list of the axis has been modified.
C10_RejectBeforeMutation ==
    [][ /\ (last'.op = "width" /\ last'.a = 0)
            => (last'.err # "none" /\ width_' = width_ /\ columns' = columns)
        /\ (last'.op = "height" /\ last'.a = 0)
            => (last'.err # "none" /\ height_' = height_ /\ rows' = rows)
      ]_vars

\* C11: column_configure changes no row cell and no character dimension;
\* row_configure changes no column cell and no character dimension.
C11_OtherAxisKept ==
    [][ /\ last'.op = "column_configure"
            => (rows' = rows /\ width_chars' = width_chars
                             /\ height_chars' = height_chars)
        /\ last'.op = "row_configure"
            => (columns' = columns /\ width_chars' = width_chars
                                   /\ height_chars' = height_chars)
      ]_vars

\* a configure call on one axis has completed on a grid whose other axis
\* has a pinned cell
C11_Witness ==
    /\ pc = "built"
    /\ \/ last.op = "column_configure" /\ \E i \in DOMAIN rows : rows[i].pinned
       \/ last.op = "row_configure" /\ \E i \in DOMAIN columns : columns[i].pinned

\* C12: Grid::builder().build() has exactly 5 columns and 5 rows, every cell
\* (20, not pinned), and get_column_chars / get_row_chars give the same value
\* for every index.
C12_FreshGrid ==
    [][ (last.op = "builder" /\ last'.op = "build")
        => /\ columns' = Fill(5, 20)
           /\ rows' = Fill(5, 20)
           /\ Len(columns') = 5 /\ Len(rows') = 5
           /\ \A i, j \in 0..4 :
                 PercentToChar(width_chars', At(columns', i).share)
                     = PercentToChar(width_chars', At(columns', j).share)
           /\ \A i, j \in 0..4 :
                 PercentToChar(height_chars', At(rows', i).share)
                     = PercentToChar(height_chars', At(rows', j).share)
      ]_vars

\* a grid built with neither width() nor height()
C12_Witness ==
    /\ pc = "built"
    /\ last.op = "build"
    /\ width_ = 5 /\ height_ = 5
    /\ Len(columns) = 5 /\ Len(rows) = 5

\* C13: a recalculate() that follows a recalculate() changes neither axis
\* and completes.
C13_Idempotent ==
    [][ (last.op = "recalculate" /\ pc = "built" /\ last'.op = "recalculate")
        => (columns' = columns /\ rows' = rows /\ pc' = "built")
      ]_vars

\* recalculate() has completed on a grid with a pinned cell
C13_Witness ==
    /\ pc = "built"
    /\ last.op = "recalculate"
    /\ \E i \in DOMAIN columns : columns[i].pinned

\* C14: get_placement_chars(c, r) completes whenever get_placement_percent
\* (c, r) does and returns (percent_to_char_width(px),
\* percent_to_char_height(py)) for (px, py) = get_placement_percent(c, r).
C14_CharsOfPercent ==
    last.op = "get_placement_chars"
    => LET r == PlacementPercent(columns, rows, last.a, last.b, overflow_checks)
       IN  /\ (r.err = "none") = (last.err = "none")
           /\ last.err = "none"
                 => /\ last.x = PercentToChar(width_chars, r.x)
                    /\ last.y = PercentToChar(height_chars, r.y)

\* get_placement_chars has returned for a cell past the first column on a
\* grid with a pinned cell and a terminal that is not square
C14_Witness ==
    /\ last.op = "get_placement_chars"
    /\ last.err = "none"
    /\ last.a >= 2
    /\ calls = 1
    /\ width_chars # height_chars

\* C15: set_width_chars(w) changes width_chars only and set_height_chars(h)
\* changes height_chars only.
C15_OnlyOneDimension ==
    [][ /\ last'.op = "set_width_chars"
            => /\ width_chars' = last'.a
               /\ UNCHANGED <<columns, rows, width_, height_, height_chars>>
        /\ last'.op = "set_height_chars"
            => /\ height_chars' = last'.a
               /\ UNCHANGED <<columns, rows, width_, height_, width_chars>>
      ]_vars

\* set_width_chars has changed the width of a grid with a pinned cell
C15_Witness ==
    /\ last.op = "set_width_chars"
    /\ width_chars = last.a
    /\ width_chars # height_chars
    /\ \E i \in DOMAIN columns : columns[i].pinned

\* C17: for 1 <= c < N the x of get_placement_percent(c + 1, r) minus the x
\* of get_placement_percent(c, r) is the share that get_column_chars(c)
\* converts to the width of column c, and likewise for rows with
\* get_row_chars, whenever the queries return.
C17_Tiling ==
    /\ (last.op = "get_column_chars" /\ last.err = "none"
          /\ last.a \in 1..(Len(columns) - 1))
       => LET a == PlacementPercent(columns, rows, last.a, 1, overflow_checks)
              b == PlacementPercent(columns, rows, last.a + 1, 1, overflow_checks)
          IN  (a.err = "none" /\ b.err = "none")
                  => b.x - a.x = At(columns, last.a).share
    /\ (last.op = "get_row_chars" /\ last.err = "none"
          /\ last.a \in 1..(Len(rows) - 1))
       => LET a == PlacementPercent(columns, rows, 1, last.a, overflow_checks)
              b == PlacementPercent(columns, rows, 1, last.a + 1, overflow_checks)
          IN  (a.err = "none" /\ b.err = "none")
                  => b.y - a.y = At(rows, last.a).share

\* C18: get_placement_percent never overflows its u8 accumulators: whenever
\* the indexing succeeds, 1 plus the accumulated shares fits in a u8 and
\* both returned percents are between 1 and 101.
C18_NoOverflow ==
    (last.op = "get_placement_percent" /\ last.a >= 1 /\ last.b >= 1)
    => /\ last.err # "Overflow"
       /\ last.err = "none"
             => /\ last.x \in 1..101
                /\ last.y \in 1..101
                /\ 1 + SumFrom(columns, 3, last.a + 1) < U8
                /\ 1 + SumFrom(rows, 3, last.b + 1) < U8

\* C16: a child added with add() keeps the rectangle add() drew it at: no
\* later step (a grid() call, a Resize event) redraws it at a position or
\* size computed from the grid.
C16_AddedNotRegridded ==
    [][ \A i \in 1..Len(children) :
            children[i].via = "add" => children'[i].rect = children[i].rect ]_vars

====
